---- MODULE Spec2Model ----
(***************************************************************************)
(* A model of load_confounds.py: the strategy catalogue, the motion model  *)
(* expander, the column selector, the PCA motion reducer and the           *)
(* orchestrator (single reference, list of references, anything else).     *)
(*                                                                         *)
(* Column names and file references are strings, handled with the string   *)
(* operations the code uses (substring test, str.format, str.replace,      *)
(* the last six characters).  A DataFrame is a record                      *)
(*     [index, groups, data]                                               *)
(* index  : the row labels, in row order (a RangeIndex is 0, 1, ..);       *)
(* groups : the column axis, a sequence of groups of column names.  The    *)
(*          columns of one group are adjacent in the frame; their order    *)
(*          inside the group is the iteration order of the Python set the  *)
(*          group was listed from, which the model leaves open.  A frame   *)
(*          read from a file, or built from a matrix, has one name per     *)
(*          group;                                                         *)
(* data   : the cell of every <<column, label>>.                           *)
(* A cell is symbolic: it names the file, row and column it was read from, *)
(* or is NaN, or names the principal component it is and the row of the    *)
(* raw table its value was computed from.                                  *)
(***************************************************************************)
EXTENDS Integers, Sequences, FiniteSets, TLC

VARIABLES
    pc,                     \* position in the call
    confounds_raw,          \* load_confounds' first argument
    strategy,               \* list of strategy names / column names
    n_components,           \* [float, val]: val is a count, or a percentage when float
    motion_model,
    nan_rows,               \* the rows of the files' tables that hold NaN
    todo,                   \* the references load_confounds has still to process
    file,                   \* _load_confounds_helper's confound_raw
    raw,                    \* _load_confounds_main's confounds_raw, once read
    confounds_of_interest,
    non_motion_confounds,
    motion_confounds,       \* _pca_motion's local
    called_pca,             \* whether _load_confounds_main called _pca_motion
    frame,                  \* _load_confounds_main's confounds_out
    confounds_out,          \* load_confounds' confounds_out
    error                   \* the exception raised, "" when none

vars == <<pc, confounds_raw, strategy, n_components, motion_model, nan_rows,
          todo, file, raw, confounds_of_interest, non_motion_confounds,
          motion_confounds, called_pca, frame, confounds_out, error>>

----------------------------------------------------------------------------
(* Bounds of the model *)

\* rows of every table
NRows == 2

\* longest strategy list
MaxStrategy == 2

\* longest list of file references
MaxFiles == 2

----------------------------------------------------------------------------
(* Python strings and lists *)

ToSet(s) == {s[i] : i \in DOMAIN s}

\* sub in s
Contains(sub, s) ==
    \E i \in 1..(Len(s) - Len(sub) + 1) : SubSeq(s, i, i + Len(sub) - 1) = sub

\* index of the first occurrence of sub in s (sub occurs in s)
Find(sub, s) ==
    CHOOSE i \in 1..(Len(s) - Len(sub) + 1) :
        /\ SubSeq(s, i, i + Len(sub) - 1) = sub
        /\ \A j \in 1..(i - 1) : SubSeq(s, j, j + Len(sub) - 1) # sub

\* template.format(arg), for a template with one "{}" field
Format(template, arg) ==
    LET p == Find("{}", template)
    IN  SubSeq(template, 1, p - 1) \o arg \o SubSeq(template, p + 2, Len(template))

\* s.replace(old, new)
RECURSIVE Replace(_, _, _)
Replace(s, old, new) ==
    IF ~Contains(old, s) THEN s
    ELSE LET p == Find(old, s)
         IN  SubSeq(s, 1, p - 1) \o new
                 \o Replace(SubSeq(s, p + Len(old), Len(s)), old, new)

\* s[-n:]
Last(s, n) == IF Len(s) <= n THEN s ELSE SubSeq(s, Len(s) - n + 1, Len(s))

----------------------------------------------------------------------------
(* Module constants *)

motion_6params == <<"trans_x", "trans_y", "trans_z", "rot_x", "rot_y", "rot_z">>

motion_models ==
    [model \in {"6params", "derivatives", "square", "full"} |->
        CASE model = "6params"     -> "{}"
          [] model = "derivatives" -> "{}_derivative1"
          [] model = "square"      -> "{}_power2"
          [] model = "full"        -> "{}_derivative1_power2"]

minimal == <<"trans", "rot">> \o <<"cosine">> \o <<"csf", "white_matter">>

confound_dict ==
    [strat \in {"motion", "matter", "high_pass_filter", "compcor", "minimal"} |->
        CASE strat = "motion"           -> <<"trans", "rot">>
          [] strat = "matter"           -> <<"csf", "white_matter">>
          [] strat = "high_pass_filter" -> <<"cosine">>
          [] strat = "compcor"          -> <<"comp_cor">>
          [] strat = "minimal"          -> minimal]

----------------------------------------------------------------------------
(* pandas and scikit-learn, as far as the code uses them *)

NaN == [kind |-> "NaN", src |-> "", row |-> 0, col |-> ""]

Columns(df) == UNION ToSet(df.groups)

IndexSet(df) == ToSet(df.index)

\* df.columns as a list, for a frame with one name per group
ColumnList(df) == [i \in DOMAIN df.groups |-> CHOOSE c \in df.groups[i] : TRUE]

\* 0, 1, .., n - 1
RangeIndex(n) == [i \in 1..n |-> i - 1]

\* pd.DataFrame()
EmptyFrame == [index |-> <<>>, groups |-> <<>>, data |-> [p \in {} |-> NaN]]

\* df[list(names)] raises KeyError unless every name is a column of df
GetitemOk(df, names) == names \subseteq Columns(df)

\* df[list(names)], names a set: the columns come in the set's iteration order
Getitem(df, names) ==
    [index  |-> df.index,
     groups |-> IF names = {} THEN <<>> ELSE <<names>>,
     data   |-> [p \in names \X IndexSet(df) |-> df.data[p]]]

\* pd.concat((a, b), axis=1): the rows are aligned on their labels (outer
\* join), a cell one frame has no row for is NaN.  The two frames here never
\* share a column name.
concat(a, b) ==
    LET index == a.index \o SelectSeq(b.index, LAMBDA r : r \notin IndexSet(a))
    IN  [index  |-> index,
         groups |-> a.groups \o b.groups,
         data   |-> [p \in (Columns(a) \cup Columns(b)) \X ToSet(index) |->
                        IF p[1] \in Columns(a)
                        THEN IF p[2] \in IndexSet(a) THEN a.data[p] ELSE NaN
                        ELSE IF p[2] \in IndexSet(b) THEN b.data[p] ELSE NaN]]

\* df.dropna(): the rows without any NaN, their labels kept
dropna(df) ==
    LET index == SelectSeq(df.index,
                           LAMBDA r : \A c \in Columns(df) : df.data[<<c, r>>] # NaN)
    IN  [index  |-> index,
         groups |-> df.groups,
         data   |-> [p \in Columns(df) \X ToSet(index) |-> df.data[p]]]

\* df.values: the rows in order, without their labels
values(df) ==
    [j \in DOMAIN df.index |-> [c \in Columns(df) |-> df.data[<<c, df.index[j]>>]]]

\* The numbers of components PCA(n_components).fit_transform(X) can give for a
\* matrix of n_samples rows and n_features columns: the count asked for, or,
\* for a proportion of variance, a count the data decides; none when
\* scikit-learn raises ValueError (no row, or more components than
\* min(n_samples, n_features)).
PcaCounts(n_samples, n_features, n) ==
    LET most == IF n_samples < n_features THEN n_samples ELSE n_features
    IN  IF n_samples = 0 THEN {}
        ELSE IF n.float THEN 1..most
        ELSE IF n.val <= most THEN {n.val} ELSE {}

\* PCA(..).fit_transform(X) with count components: row j is computed from
\* row j of X, whose cells all come from one row of the raw table
fit_transform(X, count) ==
    [j \in DOMAIN X |->
        LET from == X[j][CHOOSE c \in DOMAIN X[j] : TRUE]
        IN  [k \in 1..count |->
                [kind |-> "pca", src |-> from.src, row |-> from.row,
                 col |-> ToString(k - 1)]]]

\* pd.DataFrame(matrix) with its columns 0, 1, .. renamed
\* "motion_pca_" + str(col + 1)
PcaFrame(matrix, count) ==
    LET name(col) == "motion_pca_" \o ToString(col + 1)
    IN  [index  |-> RangeIndex(Len(matrix)),
         groups |-> [k \in 1..count |-> {name(k - 1)}],
         data   |-> [p \in {name(k - 1) : k \in 1..count}
                             \X ToSet(RangeIndex(Len(matrix))) |->
                        LET k == CHOOSE k \in 1..count : name(k - 1) = p[1]
                        IN  matrix[p[2] + 1][k]]]

----------------------------------------------------------------------------
(* The functions of load_confounds.py *)

\* [col for conf in confs if conf in col]
ColMatches(col, confs) ==
    [k \in 1..Len(SelectSeq(confs, LAMBDA conf : Contains(conf, col))) |-> col]

RECURSIVE StratParam(_, _)
StratParam(cols, confs) ==
    IF cols = <<>> THEN <<>>
    ELSE ColMatches(Head(cols), confs) \o StratParam(Tail(cols), confs)

_confound_strat(strat, confound_raw) ==
    StratParam(ColumnList(confound_raw), confound_dict[strat])

\* a variant that forgets the six base parameters of a model other than full
_add_motion_model_template_only(model) ==
    IF model # "full"
    THEN {Format(motion_models[model], mot) : mot \in ToSet(motion_6params)}
    ELSE {Format(motion_models[m], mot) :
              mot \in ToSet(motion_6params), m \in DOMAIN motion_models}

_add_motion_model(model) ==
    IF model # "full"
    THEN ToSet(motion_6params
               \o [i \in DOMAIN motion_6params |->
                      Format(motion_models[model], motion_6params[i])])
    ELSE {Format(motion_models[m], mot) :
              mot \in ToSet(motion_6params), m \in DOMAIN motion_models}

\* a variant of the loop that assigns (=) where the code unites (|=)
RECURSIVE StrategyLoop_assign(_, _, _)
StrategyLoop_assign(strats, confound_raw, interest) ==
    IF strats = <<>> THEN interest
    ELSE LET strat == Head(strats)
         IN  StrategyLoop_assign(Tail(strats), confound_raw,
                 IF strat \in DOMAIN confound_dict
                 THEN ToSet(_confound_strat(strat, confound_raw))
                 ELSE interest \cup {strat})

\* The loop over strategy: the set of confounds of interest it builds
RECURSIVE StrategyLoop(_, _, _)
StrategyLoop(strats, confound_raw, interest) ==
    IF strats = <<>> THEN interest
    ELSE LET strat == Head(strats)
         IN  StrategyLoop(Tail(strats), confound_raw,
                 IF strat \in DOMAIN confound_dict
                 THEN interest \cup ToSet(_confound_strat(strat, confound_raw))
                 ELSE interest \cup {strat})

NonMotion(interest) ==
    {conf \in interest : ~Contains("rot", conf) /\ ~Contains("trans", conf)}

\* The numbers of components the PCA of _pca_motion can give; 0 alone when
\* there is no PCA, or it raises
PcaOutcomes(confound_raw, n, model) ==
    LET motion == _add_motion_model(model)
    IN  IF ~GetitemOk(confound_raw, motion) \/ n.val = 0 THEN {0}
        ELSE LET counts == PcaCounts(Len(dropna(Getitem(confound_raw, motion)).index),
                                     Cardinality(motion), n)
             IN  IF counts = {} THEN {0} ELSE counts

\* a variant of _pca_motion that drops the incomplete rows before it looks at
\* n_components
_pca_motion_dropna_first(out, confound_raw, n, model, count) ==
    LET motion == _add_motion_model(model)
    IN  IF ~GetitemOk(confound_raw, motion)
        THEN [error |-> "KeyError", frame |-> out]
        ELSE LET motion_parameters_raw == dropna(Getitem(confound_raw, motion))
             IN  IF n.val = 0
                 THEN [error |-> "",
                       frame |-> concat(out, motion_parameters_raw)]
                 ELSE LET X == values(motion_parameters_raw)
                      IN  IF count \notin PcaCounts(Len(X), Cardinality(motion), n)
                          THEN [error |-> "ValueError", frame |-> out]
                          ELSE [error |-> "",
                                frame |-> concat(out,
                                            PcaFrame(fit_transform(X, count), count))]

\* _pca_motion, given the number of components the PCA gives (0: it raises).
\* The result is the exception raised, if any, and the frame returned.
_pca_motion(out, confound_raw, n, model, count) ==
    LET motion == _add_motion_model(model)
    IN  IF ~GetitemOk(confound_raw, motion)
        THEN [error |-> "KeyError", frame |-> out]
        ELSE LET motion_parameters_raw == Getitem(confound_raw, motion)
             IN  IF n.val = 0
                 THEN [error |-> "",
                       frame |-> concat(out, motion_parameters_raw)]
                 ELSE LET X == values(dropna(motion_parameters_raw))
                      IN  IF count \notin PcaCounts(Len(X), Cardinality(motion), n)
                          THEN [error |-> "ValueError", frame |-> out]
                          ELSE [error |-> "",
                                frame |-> concat(out,
                                            PcaFrame(fit_transform(X, count), count))]

----------------------------------------------------------------------------
(* The files: what pd.read_csv(path, delimiter="\t") gives *)

Base == {"trans_x", "trans_y", "trans_z", "rot_x", "rot_y", "rot_z"}

Derivative1 ==
    {"trans_x_derivative1", "trans_y_derivative1", "trans_z_derivative1",
     "rot_x_derivative1", "rot_y_derivative1", "rot_z_derivative1"}

Power2 ==
    {"trans_x_power2", "trans_y_power2", "trans_z_power2",
     "rot_x_power2", "rot_y_power2", "rot_z_power2"}

Derivative1Power2 ==
    {"trans_x_derivative1_power2", "trans_y_derivative1_power2",
     "trans_z_derivative1_power2", "rot_x_derivative1_power2",
     "rot_y_derivative1_power2", "rot_z_derivative1_power2"}

\* a confounds file as fmriprep writes it: the 24 motion columns and others
FullColumns ==
    <<"global_signal", "csf", "white_matter",
      "trans_x", "trans_x_derivative1", "trans_x_power2", "trans_x_derivative1_power2",
      "trans_y", "trans_y_derivative1", "trans_y_power2", "trans_y_derivative1_power2",
      "trans_z", "trans_z_derivative1", "trans_z_power2", "trans_z_derivative1_power2",
      "rot_x", "rot_x_derivative1", "rot_x_power2", "rot_x_derivative1_power2",
      "rot_y", "rot_y_derivative1", "rot_y_power2", "rot_y_derivative1_power2",
      "rot_z", "rot_z_derivative1", "rot_z_power2", "rot_z_derivative1_power2",
      "cosine00", "t_comp_cor_00">>

\* a table with two of the six motion parameters
SmallColumns == <<"trans_x", "rot_y", "csf", "cosine00", "t_comp_cor_00">>

\* a table with the six motion parameters and no derived column
SixColumns ==
    <<"csf", "trans_x", "trans_y", "trans_z", "rot_x", "rot_y", "rot_z", "cosine00">>

FullTsv == "sub-01_desc-confounds_regressors.tsv"
SmallTsv == "sub-02_desc-confounds_regressors.tsv"
SixTsv == "sub-03_desc-confounds_regressors.tsv"
FullNii == "sub-01_space-MNI152NLin2009cAsym_desc-preproc_bold.nii.gz"
OtherNii == "sub-03_space-T1w_desc-preproc_bold.nii.gz"

\* the table of a file: NRows rows, NaN in the rows nan of the columns nancols
Table(path, cols, nancols, nan) ==
    [index  |-> RangeIndex(NRows),
     groups |-> [i \in DOMAIN cols |-> {cols[i]}],
     data   |-> [p \in ToSet(cols) \X ToSet(RangeIndex(NRows)) |->
                    IF p[1] \in nancols /\ p[2] \in nan
                    THEN NaN
                    ELSE [kind |-> "raw", src |-> path, row |-> p[2], col |-> p[1]]]]

\* The tab-separated files that exist, and what read_csv gives for each.  fmriprep leaves the derivatives
\* undefined in some rows (the first one); the third file has undefined
\* values in a base motion parameter.
Files == {FullTsv, SmallTsv, SixTsv}

read_csv(path, nan) ==
    CASE path = FullTsv  ->
            Table(path, FullColumns, Derivative1 \cup Derivative1Power2, nan)
      [] path = SmallTsv -> Table(path, SmallColumns, {}, nan)
      [] path = SixTsv   -> Table(path, SixColumns, {"trans_x"}, nan)

----------------------------------------------------------------------------
(* The arguments of a call *)

Str(s) == [type |-> "str", str |-> s, list |-> <<>>, frame |-> EmptyFrame]

List(l) == [type |-> "list", str |-> "", list |-> l, frame |-> EmptyFrame]

DataFrame(df) == [type |-> "DataFrame", str |-> "", list |-> <<>>, frame |-> df]

None == [type |-> "None", str |-> "", list |-> <<>>, frame |-> EmptyFrame]

\* the integer 0
Zero == [type |-> "int", str |-> "", list |-> <<>>, frame |-> EmptyFrame]

SeqUpTo(S, n) == UNION {[1..k -> S] : k \in 0..n}

References == {FullTsv, SmallTsv, SixTsv, FullNii, OtherNii}

\* strategy names, and names of columns that only the first table has: one
\* that is no motion column and one that is the derivative of a motion
\* parameter
StrategyEntries ==
    {"minimal", "motion", "compcor", "global_signal", "trans_x_derivative1"}

\* the rows that hold NaN: none, one, or all
NanRows ==
    LET rows == ToSet(RangeIndex(NRows))
    IN  {{}, rows} \cup {{r} : r \in rows}

\* no reduction, two components, 95% of the variance (the default)
NComponents ==
    {[float |-> FALSE, val |-> 0], [float |-> FALSE, val |-> 2],
     [float |-> TRUE, val |-> 95]}

InitWith(sources, strategies, models) ==
    /\ nan_rows \in NanRows
    /\ confounds_raw \in sources \cup {DataFrame(read_csv(SixTsv, nan_rows))}
    /\ strategy \in strategies
    /\ n_components \in NComponents
    /\ motion_model \in models
    /\ pc = "load_confounds"
    /\ todo = <<>>
    /\ file = ""
    /\ raw = EmptyFrame
    /\ confounds_of_interest = {}
    /\ non_motion_confounds = {}
    /\ motion_confounds = {}
    /\ called_pca = FALSE
    /\ frame = EmptyFrame
    /\ confounds_out = None
    /\ error = ""

\* single references with every strategy list, and the shortest lists
Init ==
    InitWith({Str(r) : r \in References \ {FullNii}}
                 \cup {List(<<>>), List(<<SmallTsv>>)},
             SeqUpTo(StrategyEntries, MaxStrategy),
             DOMAIN motion_models)

\* lists of references, with a few strategy lists
InitBatch ==
    InitWith({List(l) : l \in SeqUpTo(References \ {FullTsv}, MaxFiles)}
                 \cup {Str(FullNii)},
             {<<"minimal">>, <<"compcor", "trans_x_derivative1">>, <<"matter", "high_pass_filter">>},
             {"6params", "derivatives"})

----------------------------------------------------------------------------
(* The steps of a call *)

Raise(exception) ==
    /\ error' = exception
    /\ pc' = "raised"

\* load_confounds, type(confounds_raw) == str
load_confounds_str ==
    /\ pc = "load_confounds"
    /\ confounds_raw.type = "str"
    /\ file' = confounds_raw.str
    /\ pc' = "helper"
    /\ UNCHANGED <<confounds_raw, strategy, n_components, motion_model, nan_rows,
                   todo, raw, confounds_of_interest, non_motion_confounds,
                   motion_confounds, called_pca, frame, confounds_out, error>>

\* load_confounds, type(confounds_raw) == list: confounds_out = []
load_confounds_list ==
    /\ pc = "load_confounds"
    /\ confounds_raw.type = "list"
    /\ confounds_out' = List(<<>>)
    /\ todo' = confounds_raw.list
    /\ pc' = "for"
    /\ UNCHANGED <<confounds_raw, strategy, n_components, motion_model, nan_rows,
                   file, raw, confounds_of_interest, non_motion_confounds,
                   motion_confounds, called_pca, frame, error>>

\* load_confounds, any other type: confounds_out = 0, then
\* raise ValueError("Invalid input type")
load_confounds_else ==
    /\ pc = "load_confounds"
    /\ confounds_raw.type \notin {"str", "list"}
    /\ confounds_out' = Zero
    /\ Raise("ValueError")
    /\ UNCHANGED <<confounds_raw, strategy, n_components, motion_model, nan_rows,
                   todo, file, raw, confounds_of_interest, non_motion_confounds,
                   motion_confounds, called_pca, frame>>

\* for file in confounds_raw: the next file, or return confounds_out
for_file ==
    /\ pc = "for"
    /\ IF todo = <<>>
       THEN /\ pc' = "done"
            /\ UNCHANGED <<file, todo>>
       ELSE /\ file' = Head(todo)
            /\ todo' = Tail(todo)
            /\ pc' = "helper"
    /\ UNCHANGED <<confounds_raw, strategy, n_components, motion_model, nan_rows,
                   raw, confounds_of_interest, non_motion_confounds,
                   motion_confounds, called_pca, frame, confounds_out, error>>

\* the reference _load_confounds_helper passes on: that of an image becomes
\* that of its confounds file
HelperPath(confound_raw) ==
    IF ~Contains("nii", Last(confound_raw, 6))
    THEN confound_raw
    ELSE Replace(confound_raw,
                 "_space-MNI152NLin2009cAsym_desc-preproc_bold.nii.gz",
                 "_desc-confounds_regressors.tsv")

\* _load_confounds_helper calls _load_confounds_main
_load_confounds_helper ==
    /\ pc = "helper"
    /\ file' = HelperPath(file)
    /\ pc' = "main"
    /\ UNCHANGED <<confounds_raw, strategy, n_components, motion_model, nan_rows,
                   todo, raw, confounds_of_interest, non_motion_confounds,
                   motion_confounds, called_pca, frame, confounds_out, error>>

\* _load_confounds_main: read the file; confounds_of_interest = set(),
\* confounds_out = pd.DataFrame()
main_read ==
    /\ pc = "main"
    /\ IF file \in Files
       THEN /\ raw' = read_csv(file, nan_rows)
            /\ pc' = "strategy"
            /\ UNCHANGED error
       ELSE /\ Raise("FileNotFoundError")
            /\ raw' = EmptyFrame
    /\ confounds_of_interest' = {}
    /\ non_motion_confounds' = {}
    /\ motion_confounds' = {}
    /\ called_pca' = FALSE
    /\ frame' = EmptyFrame
    /\ UNCHANGED <<confounds_raw, strategy, n_components, motion_model, nan_rows,
                   todo, file, confounds_out>>

\* _load_confounds_main: for strat in strategy
main_strategy ==
    /\ pc = "strategy"
    /\ confounds_of_interest' = StrategyLoop(strategy, raw, confounds_of_interest)
    /\ pc' = "non_motion"
    /\ UNCHANGED <<confounds_raw, strategy, n_components, motion_model, nan_rows,
                   todo, file, raw, non_motion_confounds, motion_confounds,
                   called_pca, frame, confounds_out, error>>

\* _load_confounds_main: the non-motion confounds, sliced from the raw table
main_non_motion ==
    /\ pc = "non_motion"
    /\ non_motion_confounds' = NonMotion(confounds_of_interest)
    /\ IF GetitemOk(raw, NonMotion(confounds_of_interest))
       THEN /\ frame' = concat(frame, Getitem(raw, NonMotion(confounds_of_interest)))
            /\ pc' = "motion"
            /\ UNCHANGED error
       ELSE /\ Raise("KeyError")
            /\ UNCHANGED frame
    /\ UNCHANGED <<confounds_raw, strategy, n_components, motion_model, nan_rows,
                   todo, file, raw, confounds_of_interest, motion_confounds,
                   called_pca, confounds_out>>

\* a variant that counts every column named after a motion parameter
MotionBool_any_motion(interest) ==
    {conf \in interest : Contains("rot", conf) \/ Contains("trans", conf)}

MotionBool(interest) == ToSet(motion_6params) \cap interest

\* _load_confounds_main: motion_bool is not empty, _pca_motion is called
main_pca ==
    /\ pc = "motion"
    /\ MotionBool(confounds_of_interest) # {}
    /\ called_pca' = TRUE
    /\ motion_confounds' = _add_motion_model(motion_model)
    /\ \E count \in PcaOutcomes(raw, n_components, motion_model) :
          LET got == _pca_motion(frame, raw, n_components, motion_model, count)
          IN  /\ frame' = got.frame
              /\ IF got.error # ""
                 THEN Raise(got.error)
                 ELSE /\ pc' = "return"
                      /\ UNCHANGED error
    /\ UNCHANGED <<confounds_raw, strategy, n_components, motion_model, nan_rows,
                   todo, file, raw, confounds_of_interest, non_motion_confounds,
                   confounds_out>>

\* _load_confounds_main: motion_bool is empty
main_no_pca ==
    /\ pc = "motion"
    /\ MotionBool(confounds_of_interest) = {}
    /\ pc' = "return"
    /\ UNCHANGED <<confounds_raw, strategy, n_components, motion_model, nan_rows,
                   todo, file, raw, confounds_of_interest, non_motion_confounds,
                   motion_confounds, called_pca, frame, confounds_out, error>>

\* the table comes back to load_confounds, which returns it
return_str ==
    /\ pc = "return"
    /\ confounds_raw.type = "str"
    /\ confounds_out' = DataFrame(frame)
    /\ pc' = "done"
    /\ UNCHANGED <<confounds_raw, strategy, n_components, motion_model, nan_rows,
                   todo, file, raw, confounds_of_interest, non_motion_confounds,
                   motion_confounds, called_pca, frame, error>>

\* a variant of append that inserts at the front
append_front ==
    /\ pc = "return"
    /\ confounds_raw.type = "list"
    /\ confounds_out' = List(<<frame>> \o confounds_out.list)
    /\ pc' = "for"
    /\ UNCHANGED <<confounds_raw, strategy, n_components, motion_model, nan_rows,
                   todo, file, raw, confounds_of_interest, non_motion_confounds,
                   motion_confounds, called_pca, frame, error>>

\* the table comes back to load_confounds: confounds_out.append(..)
append ==
    /\ pc = "return"
    /\ confounds_raw.type = "list"
    /\ confounds_out' = List(Append(confounds_out.list, frame))
    /\ pc' = "for"
    /\ UNCHANGED <<confounds_raw, strategy, n_components, motion_model, nan_rows,
                   todo, file, raw, confounds_of_interest, non_motion_confounds,
                   motion_confounds, called_pca, frame, error>>

Next ==
    \/ load_confounds_str
    \/ load_confounds_list
    \/ load_confounds_else
    \/ for_file
    \/ _load_confounds_helper
    \/ main_read
    \/ main_strategy
    \/ main_non_motion
    \/ main_pca
    \/ main_no_pca
    \/ return_str
    \/ append

Spec == Init /\ [][Next]_vars

SpecBatch == InitBatch /\ [][Next]_vars

----------------------------------------------------------------------------
(* Properties *)

\* _load_confounds_main is about to return its table
Returning == pc = "return"

MotionNamed(conf) == Contains("rot", conf) \/ Contains("trans", conf)

\* the names of the components of a reduced table
PcaColumns(df) == {c \in Columns(df) : Contains("motion_pca_", c)}

\* C1: a source that is a table, or a single file reference, is taken down the
\* single-table path (it is not refused as an invalid input), and what the
\* call returns for it is one table.
C1_TableOrReferenceAccepted ==
    confounds_raw.type \in {"DataFrame", "str"} =>
        /\ ~(pc = "raised" /\ file = "" /\ error = "ValueError")
        /\ pc = "done" => confounds_out.type = "DataFrame"

\* the rows of the raw table without NaN in any of the sourced motion columns
CompleteRows(df, motion) ==
    SelectSeq(df.index, LAMBDA r : \A c \in motion : df.data[<<c, r>>] # NaN)

\* C2: with n_components != 0, when the reducer has run, the output table has
\* exactly as many rows as the raw table has rows that are complete in the
\* sourced motion columns.
C2_RowDropPropagates ==
    (Returning /\ called_pca /\ n_components.val # 0) =>
        Len(frame.index) = Len(CompleteRows(raw, motion_confounds))

\* the entries of strategy that are no strategy name and name no column of
\* the raw table
AbsentRequests ==
    {strat \in ToSet(strategy) :
        strat \notin DOMAIN confound_dict /\ strat \notin Columns(raw)}

\* C3: a call that requests a column the raw table does not have fails: it
\* never returns a table, the request silently dropped.
C3_AbsentRequestFails ==
    Returning => AbsentRequests = {}

\* C4: for the table [trans_x, rot_y, csf, cosine00, t_comp_cor_00] and
\* strategy ["minimal"], the selection is {csf, cosine00} (non-motion) and
\* {trans_x, rot_y} (motion), and the motion-model names the table lacks
\* cause no error.
C4_MinimalOnSmallTable ==
    (Columns(raw) = ToSet(SmallColumns) /\ strategy = <<"minimal">>) =>
        /\ error = ""
        /\ pc \in {"motion", "return", "done"} =>
              /\ non_motion_confounds = {"csf", "cosine00"}
              /\ confounds_of_interest \ non_motion_confounds = {"trans_x", "rot_y"}

\* C5: with n_components = 0, when the reducer has run, the output has the
\* rows of the raw table, its motion columns are those of the motion model,
\* and each holds, row by row, the cells of the raw column of that name.
C5_NoReductionRoundTrip ==
    (Returning /\ called_pca /\ n_components.val = 0) =>
        /\ frame.index = raw.index
        /\ {c \in Columns(frame) : MotionNamed(c)} = motion_confounds
        /\ motion_confounds # {}
        /\ PcaColumns(frame) = {}
        /\ \A c \in Columns(frame) : MotionNamed(c) =>
              /\ c \in Columns(raw)
              /\ \A r \in IndexSet(raw) : frame.data[<<c, r>>] = raw.data[<<c, r>>]

\* a case of C5 where dropping rows would show: a motion column with a NaN
C5_Witness ==
    /\ Returning /\ called_pca /\ n_components.val = 0
    /\ \E c \in motion_confounds, r \in IndexSet(raw) : raw.data[<<c, r>>] = NaN
    /\ \E c \in motion_confounds, r \in IndexSet(raw) : raw.data[<<c, r>>] # NaN

\* the names the motion models stand for, written out
ModelNames(model) ==
    CASE model = "6params"     -> Base
      [] model = "derivatives" -> Base \cup Derivative1
      [] model = "square"      -> Base \cup Power2
      [] model = "full"        -> Base \cup Derivative1 \cup Power2 \cup Derivative1Power2

ModelSize(model) ==
    CASE model = "6params"     -> Cardinality(Base)
      [] model = "derivatives" -> 2 * Cardinality(Base)
      [] model = "square"      -> 2 * Cardinality(Base)
      [] model = "full"        -> 4 * Cardinality(Base)

\* C6: the expander gives the six base names united with the model's
\* template applied to each (6 names for 6params, 12 for derivatives and for
\* square), and for full the 24 names of the four templates.
C6_MotionModelNames ==
    called_pca =>
        /\ motion_confounds = ModelNames(motion_model)
        /\ Cardinality(motion_confounds) = ModelSize(motion_model)
        /\ Cardinality(Base) = Len(motion_6params)

C6_Witness ==
    /\ called_pca
    /\ motion_model = "derivatives"
    /\ "rot_z_derivative1" \in motion_confounds
    /\ "rot_z" \in motion_confounds

\* the tables the single-table path can return for a reference (none when it
\* raises), the steps of _load_confounds_main composed
SingleTable(reference) ==
    LET path == HelperPath(reference)
    IN  IF path \notin Files THEN {}
        ELSE LET table     == read_csv(path, nan_rows)
                 interest  == StrategyLoop(strategy, table, {})
                 selection == NonMotion(interest)
             IN  IF ~GetitemOk(table, selection) THEN {}
                 ELSE LET out == concat(EmptyFrame, Getitem(table, selection))
                      IN  IF MotionBool(interest) = {} THEN {out}
                          ELSE LET got(count) ==
                                       _pca_motion(out, table, n_components,
                                                   motion_model, count)
                               IN  {got(count).frame :
                                       count \in {k \in PcaOutcomes(table, n_components,
                                                                      motion_model) :
                                                     got(k).error = ""}}

\* C7: for a list of n references the call returns a list of n tables, the
\* i-th being a result of the single-table path for the i-th reference.
C7_BatchInOrder ==
    /\ (pc = "done" /\ confounds_raw.type = "list") =>
          /\ confounds_out.type = "list"
          /\ Len(confounds_out.list) = Len(confounds_raw.list)
          /\ \A i \in DOMAIN confounds_raw.list :
                confounds_out.list[i] \in SingleTable(confounds_raw.list[i])
    /\ (pc = "for" /\ confounds_raw.type = "list") =>
          /\ Len(confounds_out.list) + Len(todo) = Len(confounds_raw.list)
          /\ \A i \in DOMAIN confounds_out.list :
                confounds_out.list[i] \in SingleTable(confounds_raw.list[i])

\* a list of two references to different files has given two different tables
C7_Witness ==
    /\ pc = "done"
    /\ confounds_raw.type = "list"
    /\ Len(confounds_out.list) = 2
    /\ confounds_raw.list[1] # confounds_raw.list[2]
    /\ confounds_out.list[1] # confounds_out.list[2]
    /\ Columns(confounds_out.list[1]) # {}

\* what one entry of strategy selects
Resolve(entry, df) ==
    IF entry \in DOMAIN confound_dict
    THEN {col \in Columns(df) :
             \E conf \in ToSet(confound_dict[entry]) : Contains(conf, col)}
    ELSE {entry}

\* the selection as a function of the set of entries
SetSelection == UNION {Resolve(entry, raw) : entry \in ToSet(strategy)}

\* C8: the resolved selection is the union of what the entries of strategy
\* select, whatever their order and multiplicity, and so are the columns of
\* the output (but for the number of PCA components, which the data decide).
C8_UnionSemantics ==
    /\ pc \in {"non_motion", "motion", "return"} =>
          confounds_of_interest = SetSelection
    /\ Returning =>
          /\ Columns(frame) \ PcaColumns(frame) =
                {c \in SetSelection : ~MotionNamed(c)}
                    \cup (IF SetSelection \cap Base # {} /\ n_components.val = 0
                          THEN ModelNames(motion_model) ELSE {})
          /\ PcaColumns(frame) # {} <=>
                (SetSelection \cap Base # {} /\ n_components.val # 0)

\* "minimal" listed twice, and a table returned
C8_Witness ==
    /\ Returning
    /\ strategy = <<"minimal", "minimal">>
    /\ confounds_of_interest # {}
    /\ called_pca

\* the column axis the selection and the reducer give
ExpectedGroups ==
    (IF non_motion_confounds = {} THEN <<>> ELSE <<non_motion_confounds>>)
        \o (IF ~called_pca THEN <<>>
            ELSE IF n_components.val = 0 THEN <<motion_confounds>>
            ELSE [k \in 1..Cardinality(PcaColumns(frame)) |->
                     {"motion_pca_" \o ToString(k)}])

C10_RowsAligned ==
    (Returning /\ called_pca /\ n_components.val # 0) =>
        \A r \in IndexSet(frame) :
            \A c, d \in Columns(frame) :
                (frame.data[<<c, r>>] # NaN /\ frame.data[<<d, r>>] # NaN) =>
                    frame.data[<<c, r>>].row = frame.data[<<d, r>>].row

====
